---- MODULE Spec2Model ----
(* Model of the memory layout engine of memorymap_printer:                 *)
(*   linked_list.py       LinkedListItem / LinkedList                      *)
(*   memorymap_printer.py MemoryBlock / MemoryLayout (strict variant)      *)
(* A linked list is modelled with its items numbered in creation order:    *)
(* item i is the i-th LinkedListItem appended to LinkedList._items, 0 is   *)
(* None.  _items never shrinks, so count() is the number of items made.    *)
EXTENDS Integers, Sequences, FiniteSets, TLC

VARIABLES lay, other, last, phase, cmp, printer, config, out

vars == <<lay, other, last, phase, cmp, printer, config, out>>

------------------------------------------------------------------------
(* Bounds of the model *)

LayoutBegin == 1
LayoutSize == 4
MaxBlockSize == 2
MaxNodes == 6
EqMaxNodes == 3

None == 0

(* a caller's blocks are named, used or unused; only a block made by       *)
(* fill_gaps has no identifier, which identifier() gives as ''             *)
Kinds == {<<"A", FALSE>>, <<"A", TRUE>>}

(* MemoryBlock.__init__: size > 0 and begin_address >= 0, else ValueError *)
MemoryBlock(b, s, i, u) ==
    [begin_address |-> b, size |-> s, identifier |-> i, unused |-> u]

EndAddress(mb) == mb.begin_address + mb.size - 1

(* the blocks a caller can construct within the bounds of the model *)
Blocks ==
    { MemoryBlock(b, s, k[1], k[2]) :
        b \in (LayoutBegin - 1) .. (LayoutBegin + LayoutSize),
        s \in 1 .. MaxBlockSize, k \in Kinds }

(* MemoryBlock.__eq__ *)
BlockEq(x, y) == x.begin_address = y.begin_address /\ x.size = y.size

------------------------------------------------------------------------
(* LinkedList *)

EmptyList ==
    [head |-> None, tail |-> None, prev |-> <<>>, next |-> <<>>, data |-> <<>>]

Count(r) == Len(r.data)

NewItem(r) == Len(r.data) + 1

(* item in self._items *)
InItems(r, item) == item \in 1 .. Len(r.data)

(* LinkedList.append; called with self._tail not None when _items is not empty *)
LLAppend(r, d) ==
    LET new == NewItem(r) IN
    IF Count(r) = 0
    THEN [head |-> new, tail |-> new,
          prev |-> Append(r.prev, None), next |-> Append(r.next, None),
          data |-> Append(r.data, d)]
    ELSE [head |-> r.head, tail |-> new,
          prev |-> Append(r.prev, r.tail),
          next |-> Append([r.next EXCEPT ![r.tail] = new], None),
          data |-> Append(r.data, d)]

(* LinkedList.remove, item not None *)
LLRemove(r, item) ==
    LET prev_one == r.prev[item]
        next_one == r.next[item]
        p1 == [r.prev EXCEPT ![item] = None]
        n1 == [r.next EXCEPT ![item] = None]
        n2 == IF prev_one # None THEN [n1 EXCEPT ![prev_one] = next_one] ELSE n1
        h2 == IF prev_one # None THEN r.head ELSE next_one
        p2 == IF next_one # None THEN [p1 EXCEPT ![next_one] = prev_one] ELSE p1
        t2 == IF next_one # None THEN r.tail ELSE prev_one
    IN  [head |-> h2, tail |-> t2, prev |-> p2, next |-> n2, data |-> r.data]

(* LinkedList.insert_after, item not None; the new item is NewItem(r) *)
LLInsertAfter(r, item, d) ==
    LET new == NewItem(r) IN
    IF InItems(r, item)
    THEN [head |-> r.head, tail |-> r.tail,
          prev |-> Append(r.prev, item),
          next |-> Append([r.next EXCEPT ![item] = new], r.next[item]),
          data |-> Append(r.data, d)]
    ELSE [head |-> r.head, tail |-> r.tail,
          prev |-> Append(r.prev, None), next |-> Append(r.next, None),
          data |-> Append(r.data, d)]

(* insert_before that never moves the head *)
LLInsertBeforeKeepHead(r, item, d) ==
    LET new == NewItem(r)
        prev_item == r.prev[item]
    IN  [head |-> r.head, tail |-> r.tail,
         prev |-> Append([r.prev EXCEPT ![item] = new], prev_item),
         next |-> Append(IF prev_item # None
                         THEN [r.next EXCEPT ![prev_item] = new]
                         ELSE r.next, item),
         data |-> Append(r.data, d)]

(* LinkedList.insert_before, item not None; the new item is NewItem(r) *)
LLInsertBefore(r, item, d) ==
    LET new == NewItem(r)
        prev_item == r.prev[item]
    IN
    IF InItems(r, item)
    THEN [head |-> IF prev_item # None THEN r.head ELSE new,
          tail |-> r.tail,
          prev |-> Append([r.prev EXCEPT ![item] = new], prev_item),
          next |-> Append(IF prev_item # None
                          THEN [r.next EXCEPT ![prev_item] = new]
                          ELSE r.next, item),
          data |-> Append(r.data, d)]
    ELSE [head |-> r.head, tail |-> r.tail,
          prev |-> Append(r.prev, None), next |-> Append(r.next, None),
          data |-> Append(r.data, d)]

(* the last item reached from `item` by next() *)
RECURSIVE LastFrom(_, _)
LastFrom(r, item) ==
    IF item = None THEN None
    ELSE IF r.next[item] = None THEN item
    ELSE LastFrom(r, r.next[item])

(* the items reached from `item` by next(), at most `fuel` of them *)
RECURSIVE Walk(_, _, _)
Walk(r, item, fuel) ==
    IF item = None \/ fuel = 0 THEN <<>>
    ELSE <<item>> \o Walk(r, r.next[item], fuel - 1)

(* the items reached from head(); one more than Count(r) items means that  *)
(* the next() links form a cycle, on which the loops of the code never end *)
Chain(r) == Walk(r, r.head, Count(r) + 1)

Cyclic(r) == Len(Chain(r)) > Count(r)

(* LinkedList.tail, on a list whose next() links form no cycle *)
LLTail(r) == LastFrom(r, r.head)

(* LinkedList.to_list *)
LLToList(r) == LET c == Chain(r) IN [k \in 1 .. Len(c) |-> r.data[c[k]]]

------------------------------------------------------------------------
(* MemoryLayout *)

(* MemoryLayout.__init__ *)
NewLayout(b, s) == [begin_address |-> b, size |-> s, regions |-> EmptyList]

LayoutEnd(L) == L.begin_address + L.size - 1

ToList(L) == LLToList(L.regions)

Ok(L) == [layout |-> L, err |-> "none"]

Raise(L, e) == [layout |-> L, err |-> e]

WithRegions(L, r) == [L EXCEPT !.regions = r]

(* the scan with the comparison against the upper neighbour left out *)
RECURSIVE FindGapNoUpper(_, _, _, _)
FindGapNoUpper(r, nb, low_region, high_region) ==
    IF high_region = None THEN None
    ELSE IF nb.begin_address > EndAddress(r.data[low_region])
         THEN low_region
         ELSE FindGapNoUpper(r, nb, high_region, r.next[high_region])

(* the scan of append_mem_block for a gap between two consecutive regions *)
RECURSIVE FindGap(_, _, _, _)
FindGap(r, nb, low_region, high_region) ==
    IF high_region = None THEN None
    ELSE IF nb.begin_address > EndAddress(r.data[low_region])
            /\ EndAddress(nb) < r.data[high_region].begin_address
         THEN low_region
         ELSE FindGap(r, nb, high_region, r.next[high_region])

(* the bounds check with the comparison of the end addresses left out *)
OutOfRangeBeginOnly(L, nb) == nb.begin_address < L.begin_address

(* the first condition of append_mem_block: the block does not fit the layout *)
OutOfRange(L, nb) ==
    nb.begin_address < L.begin_address \/ EndAddress(nb) > LayoutEnd(L)

(* no gap found, taken as in the layout of mem_layout.py: return silently *)
NoSpaceSilent(L) == Ok(L)

(* no gap found: raise MemoryLayoutNoSpaceError *)
NoSpace(L) == Raise(L, "MemoryLayoutNoSpaceError")

(* MemoryLayout.append_mem_block *)
AppendMemBlock(L, nb) ==
    LET r == L.regions
        first_region == r.head
        high_region == LLTail(r)
        low == FindGap(r, nb, first_region, r.next[first_region])
    IN
    IF OutOfRange(L, nb)
    THEN Raise(L, "MemoryLayoutError")
    ELSE IF first_region = None
    THEN IF Count(r) # 0 /\ r.tail = None
         THEN Raise(L, "AttributeError")
         ELSE Ok(WithRegions(L, LLAppend(r, nb)))
    ELSE IF EndAddress(nb) < r.data[first_region].begin_address
    THEN Ok(WithRegions(L, LLInsertBefore(r, first_region, nb)))
    ELSE IF Cyclic(r)
    THEN Raise(L, "hang")
    ELSE IF nb.begin_address > EndAddress(r.data[high_region])
    THEN Ok(WithRegions(L, LLInsertAfter(r, high_region, nb)))
    ELSE IF Count(r) = 1
    THEN NoSpace(L)
    ELSE IF low # None
    THEN Ok(WithRegions(L, LLInsertAfter(r, low, nb)))
    ELSE NoSpace(L)

(* the loop of fill_gaps, at its top with the cursor `region` (not None)   *)
(* and the first address not yet covered                                   *)
RECURSIVE FillLoop(_, _, _, _)
FillLoop(L, region, free_address, fuel) ==
    LET d == L.regions.data[region]
        gap_size == d.begin_address - free_address
        a1 == IF gap_size > 0
              THEN AppendMemBlock(L, MemoryBlock(free_address, gap_size, "", TRUE))
              ELSE Ok(L)
        L1 == a1.layout
        free1 == EndAddress(d) + 1
        next_region == L1.regions.next[region]
    IN
    IF fuel = 0 THEN Raise(L, "hang")
    ELSE IF a1.err # "none" THEN a1
    ELSE IF free1 > LayoutEnd(L1) THEN Ok(L1)
    ELSE IF next_region = None
    THEN AppendMemBlock(L1,
             MemoryBlock(free1, LayoutEnd(L1) - free1 + 1, "", TRUE))
    ELSE FillLoop(L1, next_region, free1, fuel - 1)

(* an upper bound of the steps a loop over an acyclic list can take *)
Fuel(L) == 3 * (Count(L.regions) + 2)

(* fill_gaps that does nothing for a layout without blocks *)
FillGapsSkipEmpty(L) ==
    IF L.regions.head = None
    THEN Ok(L)
    ELSE FillLoop(L, L.regions.head, L.begin_address, Fuel(L))

(* fill_gaps that appends the block of the whole range whether the layout  *)
(* has blocks or not                                                       *)
FillGapsWholeOnly(L) ==
    AppendMemBlock(L, MemoryBlock(L.begin_address, L.size, "", TRUE))

(* MemoryLayout.fill_gaps *)
FillGaps(L) ==
    IF L.regions.head = None
    THEN AppendMemBlock(L, MemoryBlock(L.begin_address, L.size, "", TRUE))
    ELSE FillLoop(L, L.regions.head, L.begin_address, Fuel(L))

(* the loop of merge_unused, at its top *)
RECURSIVE MergeLoop(_, _, _, _)
MergeLoop(L, region, merge_base, fuel) ==
    LET r == L.regions
        new_size == EndAddress(r.data[region])
                    - r.data[merge_base].begin_address + 1
        merged_region == MemoryBlock(r.data[merge_base].begin_address, new_size,
                                     r.data[merge_base].identifier, TRUE)
        new_region == NewItem(r)
        r1 == LLInsertBefore(r, merge_base, merged_region)
        r2 == LLRemove(r1, merge_base)
        r3 == LLRemove(r2, region)
    IN
    IF region = None THEN Ok(L)
    ELSE IF fuel = 0 THEN Raise(L, "hang")
    ELSE IF ~r.data[region].unused
    THEN MergeLoop(L, r.next[region], None, fuel - 1)
    ELSE IF merge_base = None
    THEN MergeLoop(L, r.next[region], region, fuel - 1)
    ELSE IF new_size <= 0
    THEN Raise(L, "ValueError")
    ELSE MergeLoop(WithRegions(L, r3), new_region, None, fuel - 1)

(* MemoryLayout.merge_unused *)
MergeUnused(L) == MergeLoop(L, L.regions.head, None, Fuel(L))

------------------------------------------------------------------------
(* the loop of MemoryLayout.__eq__ over the two lists; other_region.data() *)
(* raises AttributeError when other_region is None                         *)
RECURSIVE EqLoop(_, _, _, _)
EqLoop(a, b, ref_region, other_region) ==
    IF ref_region = None THEN "True"
    ELSE IF other_region = None THEN "AttributeError"
    ELSE LET ref_mem_block == a.data[ref_region]
             other_mem_block == b.data[other_region]
         IN  IF BlockEq(ref_mem_block, other_mem_block)
                /\ ref_mem_block.unused = other_mem_block.unused
             THEN EqLoop(a, b, a.next[ref_region], b.next[other_region])
             ELSE "False"

(* MemoryLayout.__eq__: self == other, other a layout *)
LayoutEq(self, oth) ==
    IF self.begin_address = oth.begin_address /\ self.size = oth.size
    THEN IF Count(self.regions) = Count(oth.regions)
         THEN EqLoop(self.regions, oth.regions, self.regions.head, oth.regions.head)
         ELSE "False"
    ELSE "False"

------------------------------------------------------------------------
(* The calls a client makes on one layout.  `last` records the last call:  *)
(* its name, the error it raised, and for append_mem_block whether the     *)
(* block passed was out of                                                 *)
(* the layout's bounds, whether it intersected a block of to_list(), and   *)
(* the block itself when the call succeeded.  `phase` records the calls    *)
(* made so far: only successful appends, those followed by one fill_gaps,  *)
(* that followed by one merge_unused or by a second fill_gaps, or anything *)
(* else.                                                                   *)

Intersects(x, y) ==
    x.begin_address <= EndAddress(y) /\ y.begin_address <= EndAddress(x)

OutOfBounds(L, nb) ==
    nb.begin_address < L.begin_address \/ EndAddress(nb) > LayoutEnd(L)

OverlapsSome(L, nb) ==
    LET l == ToList(L) IN \E k \in 1 .. Len(l) : Intersects(l[k], nb)

NoCall == [op |-> "none", err |-> "none",
           oob |-> FALSE, overlap |-> FALSE, arg |-> <<>>]

Called(op, res) ==
    [op |-> op, err |-> res.err,
     oob |-> FALSE, overlap |-> FALSE, arg |-> <<>>]

(* no comparison made since the layouts last changed *)
NoCmp == [aa |-> "none", ab |-> "none", ba |-> "none"]

(* no MemoryLayoutPrinter, configuration or rendered text exists *)
NoPrinter == <<>>

Init ==
    /\ lay = NewLayout(LayoutBegin, LayoutSize)
    /\ other = NewLayout(LayoutBegin, LayoutSize)
    /\ last = NoCall
    /\ phase = "appends"
    /\ cmp = NoCmp
    /\ printer = NoPrinter
    /\ config = NoPrinter
    /\ out = NoPrinter

(* a call of append_mem_block; a raised error leaves what was done before it *)
CallAppend ==
    \E nb \in Blocks :
        LET res == AppendMemBlock(lay, nb) IN
        /\ Count(res.layout.regions) <= MaxNodes
        /\ lay' = res.layout
        /\ last' = [Called("append_mem_block", res) EXCEPT
                        !.oob = OutOfBounds(lay, nb),
                        !.overlap = OverlapsSome(lay, nb),
                        !.arg = IF res.err = "none" THEN <<nb>> ELSE <<>>]
        /\ phase' = IF phase = "appends" /\ res.err = "none"
                    THEN "appends" ELSE "other"
        /\ UNCHANGED <<other, cmp, printer, config, out>>

CallFillGaps ==
    LET res == FillGaps(lay) IN
    /\ Count(res.layout.regions) <= MaxNodes
    /\ lay' = res.layout
    /\ last' = Called("fill_gaps", res)
    /\ phase' = IF res.err # "none" THEN "other"
                ELSE IF phase = "appends" THEN "filled"
                ELSE IF phase = "filled" THEN "refilled" ELSE "other"
    /\ UNCHANGED <<other, cmp, printer, config, out>>

CallMergeUnused ==
    LET res == MergeUnused(lay) IN
    /\ Count(res.layout.regions) <= MaxNodes
    /\ lay' = res.layout
    /\ last' = Called("merge_unused", res)
    /\ phase' = IF phase = "filled" /\ res.err = "none" THEN "merged" ELSE "other"
    /\ UNCHANGED <<other, cmp, printer, config, out>>

Next == CallAppend \/ CallFillGaps \/ CallMergeUnused

Spec == Init /\ [][Next]_vars

(* the loops of the code end and raise nothing but the two layout errors *)
LoopsEnd ==
    /\ ~Cyclic(lay.regions)
    /\ last.err \in {"none", "MemoryLayoutError", "MemoryLayoutNoSpaceError"}

------------------------------------------------------------------------
(* Two layouts, each built by its own calls, and compared with ==.  The    *)
(* second layout has the bounds of the first or a smaller size.  The       *)
(* blocks appended are the one-address blocks of the first layout's range. *)

EqBlocks ==
    { nb \in Blocks : nb.size = 1 /\ ~OutOfBounds(lay, nb) }

InitEq ==
    /\ lay = NewLayout(LayoutBegin, LayoutSize)
    /\ other \in { NewLayout(LayoutBegin, s) : s \in {LayoutSize - 1, LayoutSize} }
    /\ last = NoCall
    /\ phase = "appends"
    /\ cmp = NoCmp
    /\ printer = NoPrinter
    /\ config = NoPrinter
    /\ out = NoPrinter

AppendLeft ==
    \E nb \in EqBlocks :
        LET res == AppendMemBlock(lay, nb) IN
        /\ Count(res.layout.regions) <= EqMaxNodes
        /\ lay' = res.layout
        /\ cmp' = NoCmp
        /\ UNCHANGED <<other, last, phase, printer, config, out>>

AppendRight ==
    \E nb \in EqBlocks :
        LET res == AppendMemBlock(other, nb) IN
        /\ Count(res.layout.regions) <= EqMaxNodes
        /\ other' = res.layout
        /\ cmp' = NoCmp
        /\ UNCHANGED <<lay, last, phase, printer, config, out>>

FillGapsLeft ==
    LET res == FillGaps(lay) IN
    /\ Count(res.layout.regions) <= EqMaxNodes
    /\ lay' = res.layout
    /\ cmp' = NoCmp
    /\ UNCHANGED <<other, last, phase, printer, config, out>>

FillGapsRight ==
    LET res == FillGaps(other) IN
    /\ Count(res.layout.regions) <= EqMaxNodes
    /\ other' = res.layout
    /\ cmp' = NoCmp
    /\ UNCHANGED <<lay, last, phase, printer, config, out>>

MergeUnusedLeft ==
    LET res == MergeUnused(lay) IN
    /\ Count(res.layout.regions) <= EqMaxNodes
    /\ lay' = res.layout
    /\ cmp' = NoCmp
    /\ UNCHANGED <<other, last, phase, printer, config, out>>

MergeUnusedRight ==
    LET res == MergeUnused(other) IN
    /\ Count(res.layout.regions) <= EqMaxNodes
    /\ other' = res.layout
    /\ cmp' = NoCmp
    /\ UNCHANGED <<lay, last, phase, printer, config, out>>

(* lay == lay, lay == other and other == lay *)
Compare ==
    /\ cmp' = [aa |-> LayoutEq(lay, lay), ab |-> LayoutEq(lay, other),
               ba |-> LayoutEq(other, lay)]
    /\ UNCHANGED <<lay, other, last, phase, printer, config, out>>

NextEq ==
    \/ AppendLeft \/ AppendRight
    \/ FillGapsLeft \/ FillGapsRight
    \/ MergeUnusedLeft \/ MergeUnusedRight
    \/ Compare

SpecEq == InitEq /\ [][NextEq]_vars

------------------------------------------------------------------------
(* Properties of a block sequence *)

Range(seq) == { seq[k] : k \in 1 .. Len(seq) }

SortedByBegin(seq) ==
    \A i, j \in 1 .. Len(seq) :
        i < j => seq[i].begin_address <= seq[j].begin_address

WithinBounds(L, seq) ==
    \A k \in 1 .. Len(seq) :
        seq[k].begin_address >= L.begin_address /\ EndAddress(seq[k]) <= LayoutEnd(L)

NoOverlap(seq) ==
    \A i, j \in 1 .. Len(seq) : i # j => ~Intersects(seq[i], seq[j])

(* seq is a gapless partition of the layout's address range *)
Partition(L, seq) ==
    /\ Len(seq) > 0
    /\ seq[1].begin_address = L.begin_address
    /\ \A k \in 1 .. Len(seq) - 1 :
           seq[k + 1].begin_address = EndAddress(seq[k]) + 1
    /\ EndAddress(seq[Len(seq)]) = LayoutEnd(L)

(* the blocks of a set of blocks with distinct begin addresses, ascending *)
RECURSIVE SortAsc(_)
SortAsc(S) ==
    IF S = {} THEN <<>>
    ELSE LET m == CHOOSE x \in S :
                     \A y \in S : x.begin_address <= y.begin_address
         IN  <<m>> \o SortAsc(S \ {m})

------------------------------------------------------------------------
(* C1: after any sequence of append_mem_block (successful or failing),     *)
(* fill_gaps and merge_unused calls, to_list() is sorted ascending by      *)
(* begin_address, every block lies within the layout's bounds and no two   *)
(* blocks overlap.                                                         *)
C1_SortedBoundedDisjoint ==
    LET l == ToList(lay) IN
    SortedByBegin(l) /\ WithinBounds(lay, l) /\ NoOverlap(l)

(* a merge_unused that ran after a failed call, on a list that an earlier  *)
(* merge had already shortened, and left three blocks or more              *)
C1_Witness ==
    /\ phase = "other"
    /\ last.op = "merge_unused"
    /\ Len(ToList(lay)) >= 3
    /\ Count(lay.regions) >= Len(ToList(lay)) + 2

(* C2: for a layout built by successful append_mem_block calls (also an   *)
(* empty one), after fill_gaps() the sequence exactly spans the layout's   *)
(* range without gap or overlap, and every block fill_gaps added is unused *)
(* with an empty identifier.                                               *)
C2_FillGapsSpans ==
    [][phase' = "filled" =>
          LET before == ToList(lay)
              after == ToList(lay')
          IN  /\ Partition(lay', after)
              /\ NoOverlap(after)
              /\ \A b \in Range(after) \ Range(before) :
                     b.unused /\ b.identifier = ""]_vars

(* fill_gaps has put a gap between two appended blocks *)
C2_Witness ==
    /\ phase = "filled"
    /\ \E k \in 2 .. Len(ToList(lay)) - 1 :
           /\ ToList(lay)[k].identifier = ""
           /\ ToList(lay)[k - 1].identifier # ""
           /\ ToList(lay)[k + 1].identifier # ""

(* C3: for a layout built by successful append_mem_block calls in any      *)
(* order, of used or unused blocks, after fill_gaps() and then             *)
(* merge_unused() the sequence is a gapless, non-overlapping partition of  *)
(* the layout's range.                                                     *)
C3_FillMergePartition ==
    phase = "merged" =>
        Partition(lay, ToList(lay)) /\ NoOverlap(ToList(lay))

(* C4: append_mem_block of an in-bounds block that intersects a block of   *)
(* the layout fails with MemoryLayoutNoSpaceError and leaves to_list() as  *)
(* it was.                                                                 *)
C4_OverlapRejected ==
    [][(last'.op = "append_mem_block" /\ ~last'.oob /\ last'.overlap) =>
          /\ last'.err = "MemoryLayoutNoSpaceError"
          /\ ToList(lay') = ToList(lay)]_vars

(* an in-bounds block that intersects one of at least two blocks was refused *)
C4_Witness ==
    /\ last.op = "append_mem_block"
    /\ ~last.oob /\ last.overlap
    /\ last.err = "MemoryLayoutNoSpaceError"
    /\ Len(ToList(lay)) >= 2

(* C5: append_mem_block fails with MemoryLayoutError exactly when the      *)
(* block begins below the layout's begin_address or ends above its         *)
(* end_address, and every failing append leaves to_list() unchanged.       *)
C5_OutOfBoundsExactly ==
    [][last'.op = "append_mem_block" =>
          /\ (last'.err = "MemoryLayoutError") <=> last'.oob
          /\ last'.err # "none" => ToList(lay') = ToList(lay)]_vars

(* an out-of-bounds block was refused by a layout that holds blocks *)
C5_Witness ==
    /\ last.op = "append_mem_block"
    /\ last.oob
    /\ last.err = "MemoryLayoutError"
    /\ Len(ToList(lay)) >= 1

(* C6: appending pairwise non-overlapping in-bounds blocks in any order    *)
(* succeeds for every block, and gives the blocks sorted ascending by      *)
(* begin_address: each append of a block that is in bounds and intersects  *)
(* none of the blocks appended so far succeeds, and to_list() then is the  *)
(* ascending sequence of the blocks appended so far and the new one.       *)
C6_OrderIndependent ==
    [][(phase = "appends" /\ last'.op = "append_mem_block"
        /\ ~last'.oob /\ ~last'.overlap) =>
          /\ last'.err = "none"
          /\ ToList(lay') = SortAsc(Range(ToList(lay)) \cup Range(last'.arg))]_vars

(* the third block appended went between the two appended before it *)
C6_Witness ==
    /\ phase = "appends"
    /\ Len(ToList(lay)) = 3
    /\ last.arg = <<ToList(lay)[2]>>

(* the first index of the maximal run of unused blocks that ends at j *)
RECURSIVE RunBegin(_, _)
RunBegin(seq, j) ==
    IF j > 1 /\ seq[j - 1].unused THEN RunBegin(seq, j - 1) ELSE j

(* j is the last index of a maximal run of two or more unused blocks *)
EndsRun(seq, j) ==
    /\ seq[j].unused
    /\ j = Len(seq) \/ ~seq[j + 1].unused
    /\ RunBegin(seq, j) < j

(* C7: merge_unused() replaces every maximal run of two or more            *)
(* consecutive unused blocks by exactly one unused block from the first    *)
(* block's begin_address to the last block's end_address with the first    *)
(* block's identifier; afterwards no two consecutive blocks are both       *)
(* unused.                                                                 *)
C7_MergeRuns ==
    [][last'.op = "merge_unused" =>
          LET before == ToList(lay)
              after == ToList(lay')
          IN  /\ \A j \in 1 .. Len(before) :
                     EndsRun(before, j) =>
                         LET i == RunBegin(before, j)
                             one == MemoryBlock(before[i].begin_address,
                                        EndAddress(before[j]) - before[i].begin_address + 1,
                                        before[i].identifier, TRUE)
                         IN  /\ \A k \in 1 .. Len(after) :
                                    Intersects(after[k], one) => after[k] = one
                             /\ \E m \in 1 .. Len(after) : after[m] = one
              /\ \A n \in 1 .. Len(after) - 1 :
                     ~(after[n].unused /\ after[n + 1].unused)]_vars

(* C8: a second merge_unused() directly after a first leaves to_list()     *)
(* unchanged.                                                              *)
C8_MergeIdempotent ==
    [][(last.op = "merge_unused" /\ last'.op = "merge_unused") =>
          ToList(lay') = ToList(lay)]_vars

(* the blocks of x and y agree, position by position, in begin_address,    *)
(* size and unused flag                                                    *)
SameBlocks(x, y) ==
    /\ Len(x) = Len(y)
    /\ \A k \in 1 .. Len(x) :
           /\ x[k].begin_address = y[k].begin_address
           /\ x[k].size = y[k].size
           /\ x[k].unused = y[k].unused

(* C9: for two layouts reachable through append_mem_block, fill_gaps and   *)
(* merge_unused, a == b is True if and only if both have the same          *)
(* begin_address, the same size, as many blocks in to_list(), and at equal *)
(* positions blocks of equal begin_address, size and unused flag.          *)
C9_EqualityIffSameBlocks ==
    cmp.ab # "none" =>
        ((cmp.ab = "True") <=>
            /\ lay.begin_address = other.begin_address
            /\ lay.size = other.size
            /\ SameBlocks(ToList(lay), ToList(other)))

(* x and y are the same but for the unused flag of one block *)
OneFlagApart(x, y) ==
    /\ Len(x) = Len(y)
    /\ \E k \in 1 .. Len(x) :
           /\ x[k].unused # y[k].unused
           /\ [x EXCEPT ![k].unused = y[k].unused] = y

(* C10: a == a is True; a == b and b == a give the same outcome, neither   *)
(* raises; two layouts identical but for one block's unused flag are not   *)
(* equal.                                                                  *)
C10_EqualityReflexiveSymmetric ==
    cmp.ab # "none" =>
        /\ cmp.aa = "True"
        /\ cmp.ab \in {"True", "False"}
        /\ cmp.ba = cmp.ab
        /\ (lay.begin_address = other.begin_address /\ lay.size = other.size
            /\ OneFlagApart(ToList(lay), ToList(other))) => cmp.ab = "False"

------------------------------------------------------------------------
(* MemoryLayout.from_mem_blocks, applied to a list of blocks               *)

FromMaxBegin == 3
MaxListLen == 3

(* sys.maxsize, the start value of the minimum; it is above every address  *)
(* of the model                                                            *)
SysMaxSize == 2147483647

Min(a, b) == IF a < b THEN a ELSE b

Max(a, b) == IF a > b THEN a ELSE b

(* the element of a set of one element.  { e(x) : x \in {v} } is the set   *)
(* of the one value e has when the name x is assigned v: the way the       *)
(* statements of a function body are put one after another, each name      *)
(* assigned once and read many times                                       *)
TheOne(S) == CHOOSE x \in S : TRUE

(* the loop of mem_blocks_layout_attributes over mem_blocks_list[k ..]     *)
RECURSIVE AttributesLoop(_, _, _, _)
AttributesLoop(mem_blocks_list, k, min_begin_address, max_end_address) ==
    IF k > Len(mem_blocks_list)
    THEN [min_begin_address |-> min_begin_address,
          max_end_address |-> max_end_address]
    ELSE AttributesLoop(mem_blocks_list, k + 1,
             Min(min_begin_address, mem_blocks_list[k].begin_address),
             Max(max_end_address, EndAddress(mem_blocks_list[k])))

(* the attributes with the start address taken from min_address, which the *)
(* code initialises to 0 and never assigns                                 *)
MemBlocksLayoutAttributesFromZero(mem_blocks_list) ==
    LET a == AttributesLoop(mem_blocks_list, 1, SysMaxSize, 0) IN
    IF mem_blocks_list = <<>>
    THEN [err |-> "UnboundLocalError", begin_address |-> 0, size |-> 0]
    ELSE [err |-> "none", begin_address |-> 0,
          size |-> a.max_end_address - a.min_begin_address + 1]

(* MemoryLayout.mem_blocks_layout_attributes: min_begin_address is bound   *)
(* only inside `if mem_blocks_list:`, so the return raises for an empty    *)
(* list                                                                    *)
MemBlocksLayoutAttributes(mem_blocks_list) ==
    LET a == AttributesLoop(mem_blocks_list, 1, SysMaxSize, 0) IN
    IF mem_blocks_list = <<>>
    THEN [err |-> "UnboundLocalError", begin_address |-> 0, size |-> 0]
    ELSE [err |-> "none", begin_address |-> a.min_begin_address,
          size |-> a.max_end_address - a.min_begin_address + 1]

(* the loop of from_mem_blocks: ret.append_mem_block(mb) for each block;   *)
(* an error of append_mem_block ends it                                    *)
RECURSIVE AppendAll(_, _, _)
AppendAll(ret, mem_blocks_list, k) ==
    IF k > Len(mem_blocks_list) THEN Ok(ret)
    ELSE LET res == AppendMemBlock(ret, mem_blocks_list[k]) IN
         IF res.err # "none" THEN res
         ELSE AppendAll(res.layout, mem_blocks_list, k + 1)

(* MemoryLayout.from_mem_blocks *)
FromMemBlocks(mem_blocks_list) ==
    LET a == MemBlocksLayoutAttributes(mem_blocks_list) IN
    IF a.err # "none" THEN Raise(NewLayout(0, 0), a.err)
    ELSE AppendAll(NewLayout(a.begin_address, a.size), mem_blocks_list, 1)

(* the blocks and the lists of blocks passed to from_mem_blocks *)
FromBlocks ==
    { MemoryBlock(b, s, "A", FALSE) : b \in 0 .. FromMaxBegin, s \in 1 .. MaxBlockSize }

FromLists == UNION { [1 .. n -> FromBlocks] : n \in 0 .. MaxListLen }

(* a list of blocks is chosen; `last.arg` holds it *)
InitFrom ==
    /\ lay = NewLayout(LayoutBegin, LayoutSize)
    /\ other = NewLayout(LayoutBegin, LayoutSize)
    /\ last \in { [NoCall EXCEPT !.arg = l] : l \in FromLists }
    /\ phase = "appends"
    /\ cmp = NoCmp
    /\ printer = NoPrinter
    /\ config = NoPrinter
    /\ out = NoPrinter

(* lay = MemoryLayout.from_mem_blocks(last.arg); nothing is assigned when  *)
(* the call raises                                                         *)
CallFromMemBlocks ==
    LET res == FromMemBlocks(last.arg) IN
    /\ last.op = "none"
    /\ lay' = IF res.err = "none" THEN res.layout ELSE lay
    /\ last' = [last EXCEPT !.op = "from_mem_blocks", !.err = res.err]
    /\ UNCHANGED <<other, phase, cmp, printer, config, out>>

NextFrom == CallFromMemBlocks

SpecFrom == InitFrom /\ [][NextFrom]_vars

MinBeginOf(seq) ==
    CHOOSE b \in { seq[k].begin_address : k \in 1 .. Len(seq) } :
        \A k \in 1 .. Len(seq) : b <= seq[k].begin_address

MaxEndOf(seq) ==
    CHOOSE e \in { EndAddress(seq[k]) : k \in 1 .. Len(seq) } :
        \A k \in 1 .. Len(seq) : e >= EndAddress(seq[k])

(* C11: from_mem_blocks of a non-empty list of pairwise non-overlapping    *)
(* blocks returns a layout that begins at the least begin address, ends at *)
(* the greatest end address (size = max end - min begin + 1), and whose    *)
(* to_list() is exactly the input blocks in ascending order.               *)
C11_FromMemBlocks ==
    (last.op = "from_mem_blocks" /\ last.arg # <<>> /\ NoOverlap(last.arg)) =>
        /\ last.err = "none"
        /\ lay.begin_address = MinBeginOf(last.arg)
        /\ LayoutEnd(lay) = MaxEndOf(last.arg)
        /\ lay.size = MaxEndOf(last.arg) - MinBeginOf(last.arg) + 1
        /\ ToList(lay) = SortAsc(Range(last.arg))

(* three disjoint blocks given out of order, the least address not 0 *)
C11_Witness ==
    /\ last.op = "from_mem_blocks"
    /\ Len(last.arg) = 3
    /\ NoOverlap(last.arg)
    /\ last.arg[1].begin_address > last.arg[3].begin_address
    /\ last.arg[3].begin_address > last.arg[2].begin_address
    /\ last.arg[2].begin_address > 0
    /\ last.err = "none"
    /\ Len(ToList(lay)) = 3

------------------------------------------------------------------------
(* MemoryLayout of mem_layout.py, the variant that raises nothing when a   *)
(* block finds no gap                                                      *)

LooseMaxNodes == 3

(* the loop of append_mem_block over the regions, from `region` on, up to  *)
(* the statement after it: the block goes before the first region that     *)
(* begins after its end, or after the last region when it begins after     *)
(* that region's end; else nothing is done                                 *)
RECURSIVE LooseLoop(_, _, _, _)
LooseLoop(L, nb, region, last_region) ==
    LET r == L.regions IN
    IF region = None
    THEN IF nb.begin_address > EndAddress(r.data[last_region])
            /\ EndAddress(nb) <= LayoutEnd(L)
         THEN Ok(WithRegions(L, LLInsertAfter(r, last_region, nb)))
         ELSE Ok(L)
    ELSE IF EndAddress(nb) < r.data[region].begin_address
         THEN Ok(WithRegions(L, LLInsertBefore(r, region, nb)))
         ELSE LooseLoop(L, nb, r.next[region], region)

(* mem_layout.MemoryLayout.append_mem_block *)
AppendMemBlockLoose(L, nb) ==
    LET r == L.regions IN
    IF OutOfRange(L, nb)
    THEN Raise(L, "MemoryLayoutError")
    ELSE IF r.head = None
    THEN IF Count(r) # 0 /\ r.tail = None
         THEN Raise(L, "AttributeError")
         ELSE Ok(WithRegions(L, LLAppend(r, nb)))
    ELSE IF Cyclic(r)
    THEN Raise(L, "hang")
    ELSE LooseLoop(L, nb, r.head, r.head)

(* a call of append_mem_block of mem_layout.py; `last.arg` is the block    *)
CallAppendLoose ==
    \E nb \in Blocks :
        LET res == AppendMemBlockLoose(lay, nb) IN
        /\ Count(res.layout.regions) <= LooseMaxNodes
        /\ lay' = res.layout
        /\ last' = [Called("append_mem_block", res) EXCEPT
                        !.oob = OutOfBounds(lay, nb),
                        !.overlap = OverlapsSome(lay, nb),
                        !.arg = <<nb>>]
        /\ UNCHANGED <<other, phase, cmp, printer, config, out>>

NextLoose == CallAppendLoose

SpecLoose == Init /\ [][NextLoose]_vars

(* C18: in the layout of mem_layout.py, append_mem_block of a block that   *)
(* is within the layout's bounds and intersects a block of the layout      *)
(* raises nothing and leaves to_list() as it was.                          *)
C18_NoGapIsNoOp ==
    [][ (last'.op = "append_mem_block" /\ ~last'.oob /\ last'.overlap) =>
            (last'.err = "none" /\ ToList(lay') = ToList(lay)) ]_vars

------------------------------------------------------------------------
(* Text.  A Python str is modelled as the sequence of its characters.      *)

(* c * n; the empty string for n <= 0 *)
Rep(c, n) == [k \in 1 .. n |-> c]

(* text[0:n] for n >= 0 *)
Prefix(text, n) == SubSeq(text, 1, Min(n, Len(text)))

(* text[1:] *)
DropFirst(text) == SubSeq(text, 2, Len(text))

(* text[:-1] *)
DropLast(text) == SubSeq(text, 1, Len(text) - 1)

(* f'{text:^{width}}': the padding is split with the odd space at the right *)
Center(text, width) ==
    LET pad == width - Len(text) IN
    IF pad <= 0 THEN text
    ELSE Rep(" ", pad \div 2) \o text \o Rep(" ", pad - (pad \div 2))

Digit(n) ==
    <<"0", "1", "2", "3", "4", "5", "6", "7", "8", "9",
      "A", "B", "C", "D", "E", "F">>[n + 1]

(* the digits of n >= 0 in the given base, without padding *)
RECURSIVE Digits(_, _)
Digits(n, base) ==
    IF n < base THEN <<Digit(n)>>
    ELSE Digits(n \div base, base) \o <<Digit(n % base)>>

(* f'{n:0{d}X}' *)
HexPadded(n, d) ==
    LET s == Digits(n, 16) IN Rep("0", d - Len(s)) \o s

(* string_utils.hex_digits: the loop, left when value < border; the bound  *)
(* 2 ** 64 of the loop is beyond the addresses of the model                *)
RECURSIVE HexDigitsLoop(_, _, _)
HexDigitsLoop(value, ret, border) ==
    IF value < border * 16 THEN ret
    ELSE HexDigitsLoop(value, ret + 1, border * 16)

hex_digits(value) == HexDigitsLoop(value, 1, 1)

(* string_utils.max_strlen_in_list *)
RECURSIVE max_strlen_in_list(_)
max_strlen_in_list(str_list) ==
    IF str_list = <<>> THEN 0
    ELSE Max(Len(Head(str_list)), max_strlen_in_list(Tail(str_list)))

(* the characters of the identifiers used in the model; identifier() gives *)
(* '' for a block made without one                                         *)
IdText(identifier) ==
    CASE identifier = "" -> <<>>
      [] identifier = "A" -> <<"A">>
      [] identifier = "A\nB" -> <<"A", "\n", "B">>

------------------------------------------------------------------------
(* MemoryLayoutPrinterConfig and MemoryLayoutPrinterSettings *)

CellMinLength == 2
CellMaxLength == 6

(* MemoryLayoutPrinterSettings.__init__ *)
text_offset == 1
cell_vertical_separator == "-"
cell_horizontal_separator == "|"
ver_hor_cross_char == "+"
unused_data_filler_char == "X"

(* MemoryLayoutPrinterConfig.__init__ *)
MemoryLayoutPrinterConfig(is_bits, show_identifier, max_address_digits, no_headers, cell_min_length, cell_max_length) ==
    [show_identifier |-> show_identifier,
     no_headers |-> no_headers,
     cell_min_length |-> cell_min_length,
     cell_max_length |-> cell_max_length,
     show_address_range |-> TRUE,
     range_starts_from_higher_address |-> is_bits,
     address_base |-> IF is_bits THEN "dec" ELSE "hex",
     max_address_digits |-> IF is_bits THEN 3 ELSE max_address_digits,
     range_separator |-> IF is_bits THEN ":" ELSE "-",
     brackets |-> IF is_bits THEN "square" ELSE "parentheses"]

(* one formatted address of _get_mem_region_id *)
AddressText(cfg, d, a) ==
    IF cfg.address_base = "hex"
    THEN <<"0", "x">> \o HexPadded(a, d)
    ELSE Digits(a, 10)

(* MemoryLayoutPrinter._get_mem_region_id for a block; `digits` is         *)
(* self._calculated_max_address_digits                                     *)
GetMemRegionId(cfg, digits, mem_reg) ==
    LET b == mem_reg.begin_address
        e == EndAddress(mem_reg)
        d == IF cfg.max_address_digits = 0 THEN digits ELSE cfg.max_address_digits
        open_bracket == IF cfg.brackets = "square" THEN "[" ELSE "("
        close_bracket == IF cfg.brackets = "square" THEN "]" ELSE ")"
        address_range ==
            IF b = e THEN AddressText(cfg, d, b)
            ELSE IF cfg.range_starts_from_higher_address
            THEN AddressText(cfg, d, e) \o <<cfg.range_separator>>
                     \o AddressText(cfg, d, b)
            ELSE AddressText(cfg, d, b) \o <<cfg.range_separator>>
                     \o AddressText(cfg, d, e)
    IN
    IF cfg.show_identifier
    THEN IdText(mem_reg.identifier) \o
             (IF cfg.show_address_range
              THEN <<open_bracket>> \o address_range \o <<close_bracket>>
              ELSE <<>>)
    ELSE IF cfg.show_address_range THEN address_range ELSE <<>>

(* append_cell_line without the case of a separator met by a cross *)
AppendCellLineNoCross(cur_line, text) ==
    IF text = <<>> THEN cur_line
    ELSE IF cur_line = <<>> THEN text
    ELSE IF cur_line[Len(cur_line)] = text[1]
    THEN cur_line \o DropFirst(text)
    ELSE IF cur_line[Len(cur_line)] = " "
    THEN DropLast(cur_line) \o text
    ELSE cur_line \o DropFirst(text)

(* MemoryLayoutPrinter.append_cell_line *)
AppendCellLine(cur_line, text) ==
    IF text = <<>> THEN cur_line
    ELSE IF cur_line = <<>> THEN text
    ELSE IF cur_line[Len(cur_line)] = text[1]
    THEN cur_line \o DropFirst(text)
    ELSE IF cur_line[Len(cur_line)] = " "
    THEN DropLast(cur_line) \o text
    ELSE IF cur_line[Len(cur_line)] = cell_horizontal_separator
            /\ text[1] = ver_hor_cross_char
    THEN DropLast(cur_line) \o text
    ELSE cur_line \o DropFirst(text)

(* MemoryLayoutPrinter.cell_data_only *)
CellDataOnly(cfg, text) == Center(text, cfg.cell_max_length)

(* MemoryLayoutPrinter.get_cell: the two lines of a cell.  The text is cut *)
(* to cell_max_length; the result of text.replace is dropped, so a newline *)
(* of the text stays                                                       *)
GetCell(cfg, text, is_mem_block_start, is_endl, is_data) ==
    LET cell_max_len == cfg.cell_max_length
        prefix_suffix_char == IF is_data THEN cell_horizontal_separator ELSE " "
        cut == IF Len(text) > cfg.cell_max_length
               THEN Prefix(text, cfg.cell_max_length) ELSE text
        line1 == <<prefix_suffix_char>> \o CellDataOnly(cfg, cut)
                     \o <<prefix_suffix_char>>
        line0 == IF is_mem_block_start
                 THEN <<ver_hor_cross_char>>
                          \o Rep(cell_vertical_separator, cell_max_len)
                          \o <<ver_hor_cross_char>>
                 ELSE line1
        endl == IF is_endl THEN <<"\n">> ELSE <<>>
    IN  <<line0 \o endl, line1 \o endl>>

------------------------------------------------------------------------
(* MemoryLayoutPrinter of memorymap_printer.py.  `config` is the           *)
(* MemoryLayoutPrinterConfig object, shared by every printer made with it  *)
(* (the default argument of __init__ is one object too); `printer` holds   *)
(* the fields of the printer in use; `out` records the last call: its      *)
(* name, its arguments, the error raised, the text returned, and for       *)
(* to_text the cell width used and what the loop over the breakpoints did  *)
(* row by row.                                                             *)

PrintBegin == 1
PrintSize == 4
FarBegin == 16
MaxColumns == 2

(* an absent layout: None passed to add_layout *)
NoneLayout == [none |-> TRUE]

(* MemoryLayoutPrinter.__init__ *)
NewPrinter == [loaded_layouts |-> <<>>, headers |-> <<>>,
               calculated_max_address_digits |-> 0]

NoOut == [op |-> "none", err |-> "none", text |-> <<>>, width |-> 0,
          rows |-> <<>>, arg |-> <<>>, placed |-> FALSE]

(* list[i] of Python: a negative index counts from the end *)
PyIndexOk(list, i) ==
    (i >= 0 /\ i < Len(list)) \/ (i < 0 /\ -i <= Len(list))

PyIndex(list, i) == IF i >= 0 THEN list[i + 1] ELSE list[Len(list) + i + 1]

(* sorted(list(ret_set)) *)
RECURSIVE Sorted(_)
Sorted(S) ==
    IF S = {} THEN <<>>
    ELSE TheOne({ <<m>> \o TheOne({ Sorted(rest) : rest \in {S \ {m}} }) :
                    m \in { x \in S : \A y \in S : x <= y } })

(* MemoryLayoutPrinter._get_merged_addresses_list *)
GetMergedAddressesList(ml_list) ==
    TheOne({ Sorted(ret_set) :
               ret_set \in { UNION { IF ml_list[k] # NoneLayout
                                     THEN { mb.begin_address :
                                              mb \in Range(ToList(ml_list[k])) }
                                     ELSE {} : k \in 1 .. Len(ml_list) } } })

(* the greatest number of a set of naturals, 0 for the empty set *)
SetMax(S) == IF S = {} THEN 0 ELSE CHOOSE x \in S : \A y \in S : x >= y

(* the loop of to_text that finds data_max_len *)
DataMaxLen(cfg, digits, mem_regions_lists) ==
    SetMax(UNION { { Len(GetMemRegionId(cfg, digits, item)) :
                        item \in Range(mem_regions_lists[i]) } :
                   i \in 1 .. Len(mem_regions_lists) })

(* mem_layout.MemoryLayoutPrinter.append_cell_line *)
AppendCellLineOld(cur_line, text) ==
    IF text = <<>> THEN cur_line
    ELSE IF cur_line = <<>> THEN text
    ELSE IF cur_line[Len(cur_line)] = text[1]
    THEN cur_line \o DropFirst(text)
    ELSE IF cur_line[Len(cur_line)] = " "
    THEN DropLast(cur_line) \o text
    ELSE cur_line \o DropFirst(text)

(* mem_layout.MemoryLayoutPrinter.get_cell: the text is not cut; cfg holds *)
(* settings.cell_max_length                                                *)
GetCellOld(cfg, text, is_mem_block_start, is_endl, is_data) ==
    LET cell_max_len == cfg.cell_max_length
        prefix_suffix_char == IF is_data THEN cell_horizontal_separator ELSE " "
        line1 == <<prefix_suffix_char>> \o Center(text, cell_max_len)
                     \o <<prefix_suffix_char>>
        line0 == IF is_mem_block_start
                 THEN <<ver_hor_cross_char>>
                          \o Rep(cell_vertical_separator, cell_max_len)
                          \o <<ver_hor_cross_char>>
                 ELSE line1
        endl == IF is_endl THEN <<"\n">> ELSE <<>>
    IN  <<line0 \o endl, line1 \o endl>>

(* self.get_cell and self.append_cell_line of the printer that runs the    *)
(* loops: ctx.strict tells the one of memorymap_printer.py from the one of *)
(* mem_layout.py, whose loops are the same statements                      *)
CellOf(ctx, text, is_mem_block_start, is_endl, is_data) ==
    IF ctx.strict
    THEN GetCell(ctx.cfg, text, is_mem_block_start, is_endl, is_data)
    ELSE GetCellOld(ctx.cfg, text, is_mem_block_start, is_endl, is_data)

JoinLine(ctx, cur_line, text) ==
    IF ctx.strict THEN AppendCellLine(cur_line, text)
    ELSE AppendCellLineOld(cur_line, text)

(* the lines result[0] and result[1] of the headers, from header k on *)
RECURSIVE HeaderLines(_, _, _, _)
HeaderLines(ctx, headers, header_index, result) ==
    IF header_index > Len(headers) THEN result
    ELSE TheOne({ HeaderLines(ctx, headers, header_index + 1, joined) :
                    joined \in
                      { <<JoinLine(ctx, result[1], header_cell_strings[1]),
                          JoinLine(ctx, result[2], header_cell_strings[2])>> :
                        header_cell_strings \in
                          { CellOf(ctx, headers[header_index], TRUE,
                                   header_index = Len(headers), TRUE) } } })

(* the text of a cell with the label of every block but an unused one,     *)
(* continued or not                                                        *)
CellTextLabelAlways(ctx, cur_layout_item, new_data_cell_block_condition) ==
    IF cur_layout_item.unused THEN ctx.unused_cell_str
    ELSE GetMemRegionId(ctx.cfg, ctx.digits, cur_layout_item)

(* cell_text of a cell inside the layout: the filler for an unused block,  *)
(* else the label where the block starts and spaces where it continues     *)
CellText(ctx, cur_layout_item, new_data_cell_block_condition) ==
    IF cur_layout_item.unused THEN ctx.unused_cell_str
    ELSE IF new_data_cell_block_condition
    THEN GetMemRegionId(ctx.cfg, ctx.digits, cur_layout_item)
    ELSE ctx.empty_cell_str

(* the index of a column kept as it is after a blank cell *)
IndexAfterBlankKept(is_layouts_items_finished, cur_layout_item_index) ==
    cur_layout_item_index

(* layouts_cur_item_indexes[layout_index] after a cell outside the layout  *)
IndexAfterBlank(is_layouts_items_finished, cur_layout_item_index) ==
    IF is_layouts_items_finished
    THEN cur_layout_item_index + 1 ELSE cur_layout_item_index

(* the body of the loop over the columns, for one address and one column:  *)
(* st holds layouts_cur_item_indexes, cur_strings_block, table_last_line   *)
(* and the cells made in this row                                          *)
RenderCell(ctx, st, address, layout_index, is_first_address, is_last_address) ==
    LET cfg == ctx.cfg
        cur_layout == ctx.loaded_layouts[layout_index]
        is_last_column == layout_index = Len(ctx.loaded_layouts)
        cur_mem_regions_list == ctx.mem_regions_lists[layout_index]
        cur_layout_item_index == st.indexes[layout_index]
        present == cur_layout # NoneLayout
        is_address_in_layout ==
            present /\ cur_layout.begin_address <= address
                    /\ address <= LayoutEnd(cur_layout)
        is_layout_items_just_finished ==
            present /\ cur_layout_item_index = Len(cur_mem_regions_list)
        is_layouts_items_finished ==
            present /\ cur_layout_item_index >= Len(cur_mem_regions_list)
        (* the address is outside the layout *)
        is_separate_line_needed == is_layout_items_just_finished \/ is_first_address
        blank_block == CellOf(ctx, Rep(" ", cfg.cell_max_length),
                               is_separate_line_needed, is_last_column, FALSE)
        blank_last == CellOf(ctx, <<>>, FALSE, is_last_column, FALSE)
        (* the address is inside the layout *)
        first_index == IF is_layouts_items_finished
                       THEN cur_layout_item_index - 1 ELSE cur_layout_item_index
        first_item == PyIndex(cur_mem_regions_list, first_index)
        new_data_cell_block_condition == address = first_item.begin_address
        cur_layout_item ==
            IF new_data_cell_block_condition THEN first_item
            ELSE PyIndex(cur_mem_regions_list, cur_layout_item_index - 1)
        cell_text == CellText(ctx, cur_layout_item, new_data_cell_block_condition)
        data_block == CellOf(ctx, cell_text, new_data_cell_block_condition,
                              is_last_column, TRUE)
        data_last == CellOf(ctx, <<>>, TRUE, is_last_column, FALSE)
    IN
    IF ~is_address_in_layout
    THEN [st EXCEPT
            !.block = <<JoinLine(ctx, @[1], blank_block[1]),
                        JoinLine(ctx, @[2], blank_block[2])>>,
            !.table_last_line = IF is_last_address
                                THEN JoinLine(ctx, @, blank_last[1]) ELSE @,
            !.indexes[layout_index] = IndexAfterBlank(is_layouts_items_finished, @),
            !.cells = Append(@, [in_layout |-> FALSE,
                                 start |-> is_separate_line_needed,
                                 text |-> Rep(" ", cfg.cell_max_length),
                                 item |-> <<>>])]
    ELSE IF ~PyIndexOk(cur_mem_regions_list, first_index)
    THEN [st EXCEPT !.err = "IndexError"]
    ELSE IF ~new_data_cell_block_condition
            /\ ~PyIndexOk(cur_mem_regions_list, cur_layout_item_index - 1)
    THEN [st EXCEPT !.err = "IndexError"]
    ELSE [st EXCEPT
            !.block = <<JoinLine(ctx, @[1], data_block[1]),
                        JoinLine(ctx, @[2], data_block[2])>>,
            !.table_last_line = IF is_last_address
                                THEN JoinLine(ctx, @, data_last[1]) ELSE @,
            !.indexes[layout_index] = IF new_data_cell_block_condition
                                      THEN @ + 1 ELSE @,
            !.cells = Append(@, [in_layout |-> TRUE,
                                 start |-> new_data_cell_block_condition,
                                 text |-> cell_text,
                                 item |-> <<cur_layout_item>>])]

(* the loop over the columns for one address, from column layout_index on; *)
(* an error ends it                                                        *)
RECURSIVE RenderRow(_, _, _, _, _, _)
RenderRow(ctx, st, address, layout_index, is_first_address, is_last_address) ==
    IF st.err # "none" \/ layout_index > Len(ctx.loaded_layouts) THEN st
    ELSE TheOne({ RenderRow(ctx, after, address, layout_index + 1,
                            is_first_address, is_last_address) :
                    after \in { RenderCell(ctx, st, address, layout_index,
                                           is_first_address, is_last_address) } })

(* the loop over all_addresses, from the k-th address on.  Each row adds   *)
(* its two lines to the result; st.rows keeps, per row, the address, the   *)
(* cells made and the indexes after the row                                *)
RECURSIVE RenderRows(_, _, _)
RenderRows(ctx, st, k) ==
    IF st.err # "none" \/ k > Len(ctx.all_addresses) THEN st
    ELSE LET address == ctx.all_addresses[k]
             Done(row) ==
                 [row EXCEPT
                    !.result = IF row.err = "none"
                               THEN @ \o row.block[1] \o row.block[2] ELSE @,
                    !.rows = Append(@, [address |-> address,
                                        cells |-> row.cells,
                                        before |-> st.indexes,
                                        indexes |-> row.indexes])]
         IN  TheOne({ RenderRows(ctx, done, k + 1) :
                        done \in
                          { Done(row) :
                              row \in
                                { RenderRow(ctx,
                                      [st EXCEPT !.block = << <<>>, <<>> >>,
                                                 !.cells = <<>>],
                                      address, 1, k = 1,
                                      address = ctx.all_addresses[
                                                    Len(ctx.all_addresses)]) } } })

(* the loops of to_text over the headers and over all_addresses, run with  *)
(* the names in ctx that to_text assigned before them: the state after the *)
(* last row, or at the error that ended the loops                          *)
RenderTable(ctx, headers) ==
    TheOne({ RenderRows(ctx, start, 1) :
               start \in
                 { [err |-> "none",
                    indexes |-> [k \in 1 .. Len(ctx.loaded_layouts) |-> 0],
                    block |-> << <<>>, <<>> >>, cells |-> <<>>,
                    table_last_line |-> <<>>,
                    result |-> header[1] \o header[2], rows |-> <<>>] :
                   header \in
                     { IF ctx.cfg.no_headers THEN << <<>>, <<>> >>
                       ELSE HeaderLines(ctx, headers, 1, << <<>>, <<>> >>) } } })

(* MemoryLayoutPrinter.to_text of printer p with the configuration cfg:    *)
(* the text returned or the error raised, and the fields of p and cfg the  *)
(* call assigns                                                            *)
ToText(p, cfg) ==
    LET DigitsOf(all_addresses) == hex_digits(all_addresses[Len(all_addresses)])
        Context(all_addresses, mem_regions_lists, data_max_len) ==
            LET header_max_len == max_strlen_in_list(p.headers)
                cell_data_max_len ==
                    Max(Max(data_max_len, header_max_len), cfg.cell_min_length)
                calculated_cell_max_len == cell_data_max_len + 2 * text_offset
                cell_max_length ==
                    Max(calculated_cell_max_len, cfg.cell_max_length)
            IN  [strict |-> TRUE,
                 cfg |-> [cfg EXCEPT !.cell_max_length = cell_max_length],
                 digits |-> DigitsOf(all_addresses),
                 loaded_layouts |-> p.loaded_layouts,
                 all_addresses |-> all_addresses,
                 mem_regions_lists |-> mem_regions_lists,
                 unused_cell_str |->
                     Rep(unused_data_filler_char,
                         cell_max_length - 2 * text_offset),
                 empty_cell_str |-> Rep(" ", cell_max_length)]
        Returned(ctx, st) ==
            [err |-> st.err,
             text |-> IF st.err = "none" THEN st.result \o st.table_last_line
                      ELSE <<>>,
             printer |-> [p EXCEPT !.calculated_max_address_digits = ctx.digits],
             config |-> ctx.cfg,
             width |-> ctx.cfg.cell_max_length,
             rows |-> st.rows]
        Rendered(all_addresses, mem_regions_lists) ==
            { Returned(cs[1], cs[2]) :
                cs \in
                  { <<ctx, RenderTable(ctx, p.headers)>> :
                      ctx \in
                        { Context(all_addresses, mem_regions_lists, data_max_len) :
                            data_max_len \in
                              { DataMaxLen(cfg, DigitsOf(all_addresses),
                                           mem_regions_lists) } } } }
    IN
    TheOne({ IF all_addresses = <<>>
             THEN [err |-> "none", text |-> <<>>, printer |-> p, config |-> cfg,
                   width |-> 0, rows |-> <<>>]
             ELSE TheOne(Rendered(all_addresses, mem_regions_lists)) :
               all_addresses \in { GetMergedAddressesList(p.loaded_layouts) },
               mem_regions_lists \in
                 { [k \in 1 .. Len(p.loaded_layouts) |->
                      IF p.loaded_layouts[k] # NoneLayout
                      THEN ToList(p.loaded_layouts[k]) ELSE <<>>] } })

(* MemoryLayoutPrinter.add_layout.  For position >= 0 the code calls       *)
(* self.loaded_layouts.insert(None, i) or insert(layout, position):        *)
(* list.insert takes the index first, and None or a layout is no index, so *)
(* the first of these calls raises TypeError with nothing changed          *)
AddLayoutTo(p, layout, header, position) ==
    IF position < 0
    THEN [err |-> "none",
          printer |-> [p EXCEPT !.loaded_layouts = Append(@, layout),
                                !.headers = Append(@, header)]]
    ELSE [err |-> "TypeError", printer |-> p]

------------------------------------------------------------------------
(* The calls a client makes on printers that share one configuration       *)

(* the layout a client builds with append_mem_block and, if asked,         *)
(* fill_gaps                                                               *)
MadeLayout(b, s, blocks, fill) ==
    TheOne({ IF fill THEN FillGaps(L).layout ELSE L :
               L \in { AppendAll(NewLayout(b, s), blocks, 1).layout } })

(* the layouts passed to add_layout: one without blocks; one block of two  *)
(* addresses at the layout's begin or one above it, gaps filled or not;    *)
(* a layout of other bounds, gaps filled, with a block above the end of    *)
(* the former ones whose identifier has a newline;                         *)
(* a layout far above with one unused block                                *)
PrintLayouts ==
    { NewLayout(PrintBegin, PrintSize) }
    \cup { MadeLayout(PrintBegin, PrintSize,
                      <<MemoryBlock(f, 2, "A", FALSE)>>, fill) :
             f \in {PrintBegin, PrintBegin + 1}, fill \in BOOLEAN }
    \cup { MadeLayout(PrintBegin + 2, PrintSize,
                      <<MemoryBlock(PrintBegin + PrintSize, 1, "A\nB", FALSE)>>,
                      TRUE) }
    \cup { MadeLayout(FarBegin, 2, <<MemoryBlock(FarBegin, 2, "A", TRUE)>>, FALSE) }

PrintHeaders == { <<"H", "e", "a", "d">> }

(* the configurations: the default options and those with one option       *)
(* changed, each with the cell lengths of the model                        *)
PrintConfigs ==
    { MemoryLayoutPrinterConfig(o[1], o[2], 0, o[3], CellMinLength, CellMaxLength) :
        o \in { <<FALSE, TRUE, FALSE>>, <<TRUE, TRUE, FALSE>>,
                <<FALSE, FALSE, FALSE>>, <<FALSE, TRUE, TRUE>> } }

InitPrint ==
    /\ lay = NewLayout(LayoutBegin, LayoutSize)
    /\ other = NewLayout(LayoutBegin, LayoutSize)
    /\ last = NoCall
    /\ phase = "appends"
    /\ cmp = NoCmp
    /\ config \in PrintConfigs
    /\ printer = NewPrinter
    /\ out = NoOut

(* printer = MemoryLayoutPrinter(config), or MemoryLayoutPrinter() when    *)
(* config is the default object                                            *)
MakePrinter ==
    /\ printer.loaded_layouts # <<>>
    /\ printer' = NewPrinter
    /\ out' = NoOut
    /\ UNCHANGED <<lay, other, last, phase, cmp, config>>

(* printer.add_layout(layout, header, position); out.placed tells whether  *)
(* the pair is at index `position` afterwards                              *)
AddLayout ==
    \E layout \in PrintLayouts \cup {NoneLayout}, header \in PrintHeaders,
       position \in {-1, 0, MaxColumns} :
        LET res == AddLayoutTo(printer, layout, header, position)
            n == Len(res.printer.loaded_layouts)
        IN
        /\ n <= MaxColumns
        /\ printer' = res.printer
        /\ out' = [NoOut EXCEPT
                     !.op = "add_layout", !.err = res.err,
                     !.arg = <<position>>,
                     !.placed = /\ position >= 0
                                /\ position < n
                                /\ res.printer.loaded_layouts[position + 1] = layout
                                /\ res.printer.headers[position + 1] = header]
        /\ UNCHANGED <<lay, other, last, phase, cmp, config>>

(* printer.to_text() *)
CallToText ==
    \E res \in { ToText(printer, config) } :
    /\ printer' = res.printer
    /\ config' = res.config
    /\ out' = [NoOut EXCEPT
                 !.op = "to_text", !.err = res.err, !.text = res.text,
                 !.width = res.width, !.rows = res.rows]
    /\ UNCHANGED <<lay, other, last, phase, cmp>>

NextPrint == MakePrinter \/ AddLayout \/ CallToText

SpecPrint == InitPrint /\ [][NextPrint]_vars

------------------------------------------------------------------------
(* Properties of to_text and add_layout of memorymap_printer.py *)

(* the begin addresses of the blocks of the layouts that are not absent *)
Breakpoints(p) ==
    { a \in UNION { { mb.begin_address : mb \in Range(ToList(p.loaded_layouts[c])) } :
                      c \in { k \in 1 .. Len(p.loaded_layouts) :
                                p.loaded_layouts[k] # NoneLayout } } : TRUE }

HasNewline(text) == \E k \in 1 .. Len(text) : text[k] = "\n"

(* the number of lines of a text whose lines all end with a newline *)
LineCount(text) == Cardinality({ k \in 1 .. Len(text) : text[k] = "\n" })

InLayoutBounds(L, a) == L.begin_address <= a /\ a <= LayoutEnd(L)

(* the blocks of layout L that contain address a *)
Containing(L, a) ==
    { mb \in Range(ToList(L)) : mb.begin_address <= a /\ a <= EndAddress(mb) }

(* the cells of the last to_text call, as pairs <<row, column>> *)
RenderedCells ==
    { rc \in (1 .. Len(out.rows)) \X (1 .. Len(printer.loaded_layouts)) :
        rc[2] <= Len(out.rows[rc[1]].cells) }

(* the filler, the blank and the label texts of the last to_text call *)
FillerText == Rep(unused_data_filler_char, out.width - 2 * text_offset)

BlankText == Rep(" ", out.width)

LabelText(mb) ==
    GetMemRegionId(config, printer.calculated_max_address_digits, mb)

(* C13: for a printer with at least one breakpoint and headers without a   *)
(* newline, the text to_text() returns has one row per distinct block      *)
(* start address of the layouts that are not absent, ascending, and is     *)
(* made of 2 header lines (none with no_headers), 2 lines per breakpoint   *)
(* and 1 closing line: 2 * N + 3 lines, or 2 * N + 1 without headers.      *)
C13_RowsAndLines ==
    LET N == Cardinality(Breakpoints(printer)) IN
    ( /\ out.op = "to_text" /\ out.err = "none"
      /\ N >= 1
      /\ \A k \in 1 .. Len(printer.headers) : ~HasNewline(printer.headers[k]) )
    =>
    /\ Len(out.rows) = N
    /\ { out.rows[i].address : i \in 1 .. N } = Breakpoints(printer)
    /\ \A i \in 1 .. N - 1 : out.rows[i].address < out.rows[i + 1].address
    /\ out.text[Len(out.text)] = "\n"
    /\ LineCount(out.text) = 2 * N + (IF config.no_headers THEN 1 ELSE 3)

(* C14: in to_text(), for every breakpoint a and every column whose layout *)
(* has a block containing a, the cell of that row and column is made from  *)
(* that block: a start cell (top border, and the block's label or the      *)
(* filler if the block is unused) exactly if a is the block's begin        *)
(* address, else a continuation cell (the filler if the block is unused,   *)
(* blank if it is used).                                                   *)
C14_CellFromCoveringBlock ==
    out.op = "to_text" =>
        \A rc \in RenderedCells :
            LET a == out.rows[rc[1]].address
                L == printer.loaded_layouts[rc[2]]
                cell == out.rows[rc[1]].cells[rc[2]]
            IN  L # NoneLayout =>
                  \A mb \in Containing(L, a) :
                      /\ cell.in_layout
                      /\ cell.item = <<mb>>
                      /\ cell.start = (a = mb.begin_address)
                      /\ cell.text = IF mb.unused THEN FillerText
                                     ELSE IF a = mb.begin_address
                                     THEN LabelText(mb) ELSE BlankText

(* a returned table with the start of an unused block, the start of a used *)
(* block, and continuation cells of a used and of an unused block          *)
C14_Witness ==
    /\ out.op = "to_text" /\ out.err = "none"
    /\ \A u \in BOOLEAN, s \in BOOLEAN :
         \E rc \in RenderedCells :
            LET a == out.rows[rc[1]].address
                L == printer.loaded_layouts[rc[2]]
            IN  /\ L # NoneLayout
                /\ \E mb \in Containing(L, a) :
                       mb.unused = u /\ (a = mb.begin_address) = s

(* C15: the cell width to_text() uses is at most the configured            *)
(* cell_max_length.                                                        *)
C15_WidthWithinMax ==
    (out.op = "to_text" /\ out.err = "none" /\ out.text # <<>>) =>
        out.width <= CellMaxLength

(* the configuration as it was constructed *)
ConfiguredConfig == [config EXCEPT !.cell_max_length = CellMaxLength]

(* C16: the text to_text() returns is the text a printer with the same     *)
(* layouts, headers and configured options returns when no to_text() call  *)
(* was made before.                                                        *)
C16_NoWidthLeak ==
    (out.op = "to_text" /\ out.err = "none") =>
        out.text = ToText(printer, ConfiguredConfig).text

(* C17: add_layout with a position p >= 0 raises nothing and leaves the    *)
(* layout and the header at column index p.                                *)
C17_PositionPlaces ==
    (out.op = "add_layout" /\ out.arg[1] >= 0) =>
        (out.err = "none" /\ out.placed)

(* C19: to_text() raises no error, whatever columns were added.            *)
C19_ToTextRaisesNothing ==
    out.op = "to_text" => out.err = "none"

(* C20: in one to_text() call the index of each column never decreases     *)
(* from row to row and grows by at most one per row; once it has passed    *)
(* the column's last block, a breakpoint inside the layout's bounds is     *)
(* rendered as a continuation of the last block; and a cell outside the    *)
(* layout's bounds has a top border exactly on the first row of the table  *)
(* and on the first row after the rows inside the bounds.                  *)
C20_CursorAndBlankCells ==
    out.op = "to_text" =>
        /\ \A i \in 1 .. Len(out.rows) - 1 :
               out.rows[i + 1].before = out.rows[i].indexes
        /\ \A i \in 1 .. Len(out.rows) :
               \A c \in 1 .. Len(printer.loaded_layouts) :
                   /\ out.rows[i].indexes[c] >= out.rows[i].before[c]
                   /\ out.rows[i].indexes[c] <= out.rows[i].before[c] + 1
        /\ \A rc \in RenderedCells :
            LET i == rc[1]
                a == out.rows[i].address
                L == printer.loaded_layouts[rc[2]]
                list == ToList(L)
                cell == out.rows[i].cells[rc[2]]
            IN  L # NoneLayout =>
                  /\ (InLayoutBounds(L, a) /\ out.rows[i].before[rc[2]] >= Len(list)) =>
                        /\ cell.in_layout /\ ~cell.start
                        /\ cell.item = <<list[Len(list)]>>
                        /\ cell.text = IF list[Len(list)].unused
                                       THEN FillerText ELSE BlankText
                  /\ ~InLayoutBounds(L, a) =>
                        /\ ~cell.in_layout
                        /\ cell.text = BlankText
                        /\ cell.start =
                             ( \/ i = 1
                               \/ InLayoutBounds(L, out.rows[i - 1].address) )

(* a returned table where a column is past its last block on a row inside  *)
(* its bounds, and has blank cells on two later rows outside its bounds    *)
C20_Witness ==
    /\ out.op = "to_text" /\ out.err = "none"
    /\ \E c \in 1 .. Len(printer.loaded_layouts) :
         LET L == printer.loaded_layouts[c] IN
         /\ L # NoneLayout
         /\ \E i \in 2 .. Len(out.rows) - 2 :
              /\ InLayoutBounds(L, out.rows[i].address)
              /\ out.rows[i].before[c] >= Len(ToList(L))
              /\ ~InLayoutBounds(L, out.rows[i + 1].address)
              /\ out.rows[i + 1].cells[c].start
              /\ ~out.rows[i + 2].cells[c].start

------------------------------------------------------------------------
(* MemoryLayoutPrinter of mem_layout.py.  Its cell lengths are fields of   *)
(* the printer's own settings object; `config` is the                      *)
(* LayoutComparatorConfig object.                                          *)

(* LayoutComparatorConfig.__init__ *)
LayoutComparatorConfig(is_bits, show_identifier, max_address_digits, no_headers) ==
    [show_identifier |-> show_identifier,
     no_headers |-> no_headers,
     show_address_range |-> TRUE,
     range_starts_from_higher_address |-> is_bits,
     address_base |-> IF is_bits THEN "dec" ELSE "hex",
     max_address_digits |-> IF is_bits THEN 3 ELSE max_address_digits,
     range_separator |-> IF is_bits THEN ":" ELSE "-",
     brackets |-> IF is_bits THEN "square" ELSE "parentheses"]

(* mem_layout.MemoryLayoutPrinter.__init__, with the two lengths of        *)
(* LayoutComparatorInternalSettings.__init__                               *)
NewPrinterOld ==
    [loaded_layouts |-> <<>>, headers |-> <<>>,
     calculated_max_address_digits |-> 0,
     settings |-> [cell_min_length |-> 28, cell_max_length |-> 0]]

(* mem_layout.MemoryLayoutPrinter.to_text: all_addresses[-1] is read       *)
(* first, which raises IndexError for an empty list                        *)
ToTextOld(p, cfg) ==
    LET DigitsOf(all_addresses) == hex_digits(all_addresses[Len(all_addresses)])
        Context(all_addresses, mem_regions_lists, data_max_len) ==
            LET header_max_len == max_strlen_in_list(p.headers)
                cell_data_max_len ==
                    Max(Max(data_max_len, header_max_len),
                        p.settings.cell_min_length)
                calculated_cell_max_len == cell_data_max_len + 2 * text_offset
                cell_max_len ==
                    Max(calculated_cell_max_len, p.settings.cell_max_length)
            IN  [strict |-> FALSE,
                 cfg |-> cfg @@ [cell_max_length |-> cell_max_len],
                 digits |-> DigitsOf(all_addresses),
                 loaded_layouts |-> p.loaded_layouts,
                 all_addresses |-> all_addresses,
                 mem_regions_lists |-> mem_regions_lists,
                 unused_cell_str |->
                     Rep(unused_data_filler_char, cell_data_max_len),
                 empty_cell_str |-> Rep(" ", cell_max_len)]
        Returned(ctx, st) ==
            [err |-> st.err,
             text |-> IF st.err = "none" THEN st.result \o st.table_last_line
                      ELSE <<>>,
             printer |-> [p EXCEPT
                            !.calculated_max_address_digits = ctx.digits,
                            !.settings.cell_max_length = ctx.cfg.cell_max_length],
             width |-> ctx.cfg.cell_max_length,
             rows |-> st.rows]
        Rendered(all_addresses, mem_regions_lists) ==
            { Returned(cs[1], cs[2]) :
                cs \in
                  { <<ctx, RenderTable(ctx, p.headers)>> :
                      ctx \in
                        { Context(all_addresses, mem_regions_lists, data_max_len) :
                            data_max_len \in
                              { DataMaxLen(cfg, DigitsOf(all_addresses),
                                           mem_regions_lists) } } } }
    IN
    TheOne({ IF all_addresses = <<>>
             THEN [err |-> "IndexError", text |-> <<>>, printer |-> p,
                   width |-> 0, rows |-> <<>>]
             ELSE TheOne(Rendered(all_addresses, mem_regions_lists)) :
               all_addresses \in { GetMergedAddressesList(p.loaded_layouts) },
               mem_regions_lists \in
                 { [k \in 1 .. Len(p.loaded_layouts) |->
                      ToList(p.loaded_layouts[k])] } })

(* mem_layout.MemoryLayoutPrinter.add_layout: None is passed over; a       *)
(* position above the count raises IndexError, and any other position      *)
(* >= 0 comes to self.loaded_layouts.insert(layout, position), a TypeError *)
AddLayoutOldTo(p, layout, header, position) ==
    IF layout = NoneLayout THEN [err |-> "none", printer |-> p]
    ELSE IF position < 0
    THEN [err |-> "none",
          printer |-> [p EXCEPT !.loaded_layouts = Append(@, layout),
                                !.headers = Append(@, header)]]
    ELSE IF position > Len(p.loaded_layouts)
    THEN [err |-> "IndexError", printer |-> p]
    ELSE [err |-> "TypeError", printer |-> p]

(* the layout of mem_layout.py a client builds with append_mem_block *)
RECURSIVE MadeLayoutOld(_, _, _)
MadeLayoutOld(L, blocks, k) ==
    IF k > Len(blocks) THEN L
    ELSE TheOne({ MadeLayoutOld(appended, blocks, k + 1) :
                    appended \in { AppendMemBlockLoose(L, blocks[k]).layout } })

(* the layouts passed to add_layout: one without blocks; one block of two  *)
(* addresses at the layout's begin or one above it; three blocks of which  *)
(* two share an address; a layout of other bounds; a layout far above      *)
PrintLayoutsOld ==
    { NewLayout(PrintBegin, PrintSize) }
    \cup { MadeLayoutOld(NewLayout(PrintBegin, PrintSize),
                         <<MemoryBlock(f, 2, "A", FALSE)>>, 1) :
             f \in {PrintBegin, PrintBegin + 1} }
    \cup { MadeLayoutOld(NewLayout(PrintBegin, PrintSize),
                         <<MemoryBlock(PrintBegin, 2, "A", FALSE),
                           MemoryBlock(PrintBegin + 3, 1, "A", TRUE),
                           MemoryBlock(PrintBegin + 1, 2, "A", FALSE)>>, 1) }
    \cup { MadeLayoutOld(NewLayout(PrintBegin + 2, PrintSize),
                         <<MemoryBlock(PrintBegin + PrintSize, 1, "A\nB", FALSE)>>, 1) }
    \cup { MadeLayoutOld(NewLayout(FarBegin, 2),
                         <<MemoryBlock(FarBegin, 2, "A", TRUE)>>, 1) }

PrintConfigsOld ==
    { LayoutComparatorConfig(o[1], o[2], 0, o[3]) :
        o \in { <<FALSE, TRUE, FALSE>>, <<TRUE, TRUE, FALSE>>,
                <<FALSE, FALSE, FALSE>>, <<FALSE, TRUE, TRUE>> } }

InitPrintOld ==
    /\ lay = NewLayout(LayoutBegin, LayoutSize)
    /\ other = NewLayout(LayoutBegin, LayoutSize)
    /\ last = NoCall
    /\ phase = "appends"
    /\ cmp = NoCmp
    /\ config \in PrintConfigsOld
    /\ printer = NewPrinterOld
    /\ out = NoOut

(* printer = MemoryLayoutPrinter(config) of mem_layout.py *)
MakePrinterOld ==
    /\ printer.loaded_layouts # <<>>
    /\ printer' = NewPrinterOld
    /\ out' = NoOut
    /\ UNCHANGED <<lay, other, last, phase, cmp, config>>

(* printer.add_layout(layout, header, position) *)
AddLayoutOld ==
    \E layout \in PrintLayoutsOld \cup {NoneLayout}, header \in PrintHeaders,
       position \in {-1, 0, MaxColumns} :
        LET res == AddLayoutOldTo(printer, layout, header, position)
            n == Len(res.printer.loaded_layouts)
        IN
        /\ n <= MaxColumns
        /\ printer' = res.printer
        /\ out' = [NoOut EXCEPT
                     !.op = "add_layout", !.err = res.err,
                     !.arg = <<position>>,
                     !.placed = /\ position >= 0
                                /\ position < n
                                /\ res.printer.loaded_layouts[position + 1] = layout
                                /\ res.printer.headers[position + 1] = header]
        /\ UNCHANGED <<lay, other, last, phase, cmp, config>>

(* printer.to_text() *)
CallToTextOld ==
    \E res \in { ToTextOld(printer, config) } :
    /\ printer' = res.printer
    /\ out' = [NoOut EXCEPT
                 !.op = "to_text", !.err = res.err, !.text = res.text,
                 !.width = res.width, !.rows = res.rows]
    /\ UNCHANGED <<lay, other, last, phase, cmp, config>>

NextPrintOld == MakePrinterOld \/ AddLayoutOld \/ CallToTextOld

SpecPrintOld == InitPrintOld /\ [][NextPrintOld]_vars

(* C12: to_text() called when no layout that is not absent has a block     *)
(* (no layout added, only absent layouts, only layouts without blocks)     *)
(* raises nothing and returns the empty text, in the renderer of           *)
(* memorymap_printer.py and in the renderer of mem_layout.py.              *)
C12_EmptyTableIsEmptyText ==
    (out.op = "to_text" /\ Breakpoints(printer) = {}) =>
        (out.err = "none" /\ out.text = <<>>)

------------------------------------------------------------------------
(* append_cell_line of memorymap_printer.py applied to two pieces of a     *)
(* line; `out.arg` holds the pieces, `out.text` the line returned          *)

MaxPieceLen == 2

(* the characters of the pieces: the blank, the two border characters of   *)
(* a data cell, the character of a top border, and a letter                *)
PieceChars ==
    {" ", cell_horizontal_separator, ver_hor_cross_char,
     cell_vertical_separator, "A"}

Pieces == UNION { [1 .. n -> PieceChars] : n \in 0 .. MaxPieceLen }

InitCell ==
    /\ lay = NewLayout(LayoutBegin, LayoutSize)
    /\ other = NewLayout(LayoutBegin, LayoutSize)
    /\ last = NoCall
    /\ phase = "appends"
    /\ cmp = NoCmp
    /\ printer = NewPrinter
    /\ config = NoPrinter
    /\ out \in { [NoOut EXCEPT !.arg = <<cur_line, text>>] :
                   cur_line \in Pieces, text \in Pieces }

(* out.text = printer.append_cell_line(out.arg[1], out.arg[2]) *)
CallAppendCellLine ==
    /\ out.op = "none"
    /\ out' = [out EXCEPT !.op = "append_cell_line",
                          !.text = AppendCellLine(out.arg[1], out.arg[2])]
    /\ UNCHANGED <<lay, other, last, phase, cmp, printer, config>>

NextCell == CallAppendCellLine

SpecCell == InitCell /\ [][NextCell]_vars

(* the character that stands where the two pieces meet *)
BorderChar(cur_last, text_first) ==
    IF cur_last = text_first THEN cur_last
    ELSE IF cur_last = " " THEN text_first
    ELSE IF cur_last = "|" /\ text_first = "+" THEN text_first
    ELSE cur_last

(* C21: append_cell_line(cur_line, text) of memorymap_printer.py, for two  *)
(* non-empty pieces, returns a line of length len(cur_line) + len(text) - 1*)
(* made of cur_line without its last character, one border character, and  *)
(* text without its first character; the border character is the common    *)
(* one when cur_line's last equals text's first, text's first when         *)
(* cur_line ends with a blank or ends with '|' while text starts with '+', *)
(* and cur_line's last otherwise.  An empty piece leaves the other piece   *)
(* unchanged.                                                              *)
C21_MergeRule ==
    out.op = "append_cell_line" =>
        LET cur_line == out.arg[1]
            text == out.arg[2]
            ret == out.text
            n == Len(cur_line)
        IN  /\ text = <<>> => ret = cur_line
            /\ cur_line = <<>> => ret = text
            /\ (cur_line # <<>> /\ text # <<>>) =>
                 /\ Len(ret) = n + Len(text) - 1
                 /\ \A k \in 1 .. n - 1 : ret[k] = cur_line[k]
                 /\ ret[n] = BorderChar(cur_line[n], text[1])
                 /\ \A k \in 2 .. Len(text) : ret[n + k - 1] = text[k]

(* a line ending with the separator joined with a piece starting with the  *)
(* cross                                                                   *)
C21_Witness ==
    /\ out.op = "append_cell_line"
    /\ Len(out.arg[1]) = 2 /\ out.arg[1][2] = "|"
    /\ Len(out.arg[2]) = 2 /\ out.arg[2][1] = "+"
    /\ out.text = <<out.arg[1][1], "+", out.arg[2][2]>>

------------------------------------------------------------------------
(* Properties of merge_unused, fill_gaps and the links of the list *)

(* the blocks of a list that are not unused, in the order of the list *)
RECURSIVE UsedOf(_)
UsedOf(seq) ==
    IF seq = <<>> THEN <<>>
    ELSE IF Head(seq).unused THEN UsedOf(Tail(seq))
    ELSE <<Head(seq)>> \o UsedOf(Tail(seq))

(* C22: merge_unused() never removes or changes a block that is not        *)
(* unused: called on a layout made by successful append_mem_block calls,   *)
(* followed or not by one fill_gaps(), it leaves the sub-sequence of the   *)
(* blocks of to_list() that are not unused as it was.                      *)
C22_MergeKeepsUsed ==
    [][ (phase \in {"appends", "filled"} /\ last'.op = "merge_unused") =>
            UsedOf(ToList(lay')) = UsedOf(ToList(lay)) ]_vars

(* C23: for a layout built by successful append_mem_block calls, a second  *)
(* fill_gaps() directly after the first inserts no block, raises nothing   *)
(* and leaves to_list() unchanged.                                         *)
C23_FillGapsIdempotent ==
    [][ (phase = "filled" /\ last'.op = "fill_gaps") =>
            /\ last'.err = "none"
            /\ Count(lay'.regions) = Count(lay.regions)
            /\ ToList(lay') = ToList(lay) ]_vars

(* fill_gaps was called twice in a row on a layout of a used block between *)
(* two gaps                                                                *)
C23_Witness ==
    /\ phase = "refilled"
    /\ last.op = "fill_gaps" /\ last.err = "none"
    /\ Len(ToList(lay)) = 3
    /\ ToList(lay)[1].unused /\ ToList(lay)[1].identifier = ""
    /\ ~ToList(lay)[2].unused
    /\ ToList(lay)[3].unused /\ ToList(lay)[3].identifier = ""

(* the items reached from `item` by prev(), at most `fuel` of them *)
RECURSIVE WalkBack(_, _, _)
WalkBack(r, item, fuel) ==
    IF item = None \/ fuel = 0 THEN <<>>
    ELSE <<item>> \o WalkBack(r, r.prev[item], fuel - 1)

Reverse(seq) == [k \in 1 .. Len(seq) |-> seq[Len(seq) + 1 - k]]

(* C24: the forward and the backward links of the list of a layout agree:  *)
(* head().prev() is None; for every item x reached from head(), x.next()   *)
(* is None or x.next().prev() is x; and walking prev() from tail() visits  *)
(* the items reached from head() in reverse order.                         *)
C24_LinksAgree ==
    LET r == lay.regions
        c == Chain(r)
    IN  /\ r.head # None => r.prev[r.head] = None
        /\ \A k \in 1 .. Len(c) :
               r.next[c[k]] = None \/ r.prev[r.next[c[k]]] = c[k]
        /\ ~Cyclic(r) => WalkBack(r, LLTail(r), Count(r) + 1) = Reverse(c)

====
